---- MODULE Spec2Model ----
(***************************************************************************)
(* Model of the Ubiquiti Edgeswitch Ansible modules edgeswitch_vlan,       *)
(* edgeswitch_interface and edgeswitch_voice.                              *)
(*                                                                         *)
(* Python values are tagged with their type, because the code compares     *)
(* integers (module parameters) with text scraped from the device, and in  *)
(* Python an int never equals a str.  Command strings are TLA+ strings.    *)
(* Interface identifiers are tuples of one-character strings, so that the  *)
(* regular expressions of the code can be evaluated on them.               *)
(***************************************************************************)
EXTENDS Integers, Sequences, FiniteSets, TLC

VARIABLES
    want,            \* desired objects (map_params_to_obj)
    have,            \* observed objects (map_config_to_obj)
    purge,           \* module.params['purge']
    check_mode,      \* module.check_mode
    device,          \* what the switch answers to the read commands
    ports,           \* observed switchport data (map_ports_to_obj)
    pc,              \* position in main()
    i,               \* index of the desired entry the current loop is at
    commands,        \* the command list under construction / returned
    interfaces,      \* the per-entry dict interface -> mode
    interfaces_cmds, \* the accumulator interface -> sub-commands
    result,          \* what the caller receives
    submitted,       \* the batches sent to the write path, in order
    params,          \* module.params (edgeswitch_interface)
    warnings         \* the warnings list (edgeswitch_interface)

vars == <<want, have, purge, check_mode, device, ports, pc, i, commands,
          interfaces, interfaces_cmds, result, submitted, params, warnings>>

\* What edgeswitch_vlan does not use, and what edgeswitch_interface does not use.
notVlanVars == <<params, warnings>>
notInterfaceVars == <<purge, ports, interfaces, interfaces_cmds>>

-----------------------------------------------------------------------------
(* Python values *)

PyNone == [t |-> "none"]
PyInt(n) == [t |-> "int", v |-> n]
PyStr(s) == [t |-> "str", v |-> s]
PyBool(b) == [t |-> "bool", v |-> b]

\* Python ==: values of different types are never equal.
PyEq(a, b) == /\ a.t = b.t
              /\ (a.t = "none" \/ a.v = b.v)

\* Python truth value of None, an int or a str.
Truthy(a) == CASE a.t = "none" -> FALSE
               [] a.t = "int"  -> a.v # 0
               [] a.t = "str"  -> a.v # ""
               [] a.t = "bool" -> a.v

\* str(x)
PyStrOf(a) == CASE a.t = "none" -> PyStr("None")
                [] a.t = "int"  -> PyStr(ToString(a.v))
                [] a.t = "str"  -> a

\* '{0}'.format(x): the text of x
Format(a) == PyStrOf(a).v

\* x in lst, for a list of Python values
PyIn(a, lst) == \E k \in DOMAIN lst : PyEq(a, lst[k])

-----------------------------------------------------------------------------
(* Characters, and the regular expressions of the code *)

Digits == <<"0", "1", "2", "3", "4", "5", "6", "7", "8", "9">>

IsDigit(c) == \E d \in DOMAIN Digits : Digits[d] = c

DigitVal(c) == (CHOOSE d \in DOMAIN Digits : Digits[d] = c) - 1

\* The code point of a character (those the model uses).
Ord(c) == CASE c = "-" -> 45
            [] c = "/" -> 47
            [] IsDigit(c) -> 48 + DigitVal(c)
            [] c = "a" -> 97
            [] c = "g" -> 103
            [] c = "l" -> 108
            [] c = "x" -> 120

\* The text of a character tuple.
RECURSIVE Text(_)
Text(cs) == IF cs = <<>> THEN "" ELSE Head(cs) \o Text(Tail(cs))

\* int(s) for a tuple of digits
RECURSIVE ParseInt(_)
ParseInt(cs) == IF cs = <<>> THEN 0
                ELSE 10 * ParseInt(SubSeq(cs, 1, Len(cs) - 1)) + DigitVal(cs[Len(cs)])

\* str(n) for n >= 0, as a character tuple
RECURSIVE IntChars(_)
IntChars(n) == IF n < 10 THEN <<Digits[n + 1]>>
               ELSE IntChars(n \div 10) \o <<Digits[(n % 10) + 1]>>

\* The position after the longest run of digits that starts at p.
RECURSIVE DigitsEnd(_, _)
DigitsEnd(s, p) == IF p <= Len(s) /\ IsDigit(s[p]) THEN DigitsEnd(s, p + 1) ELSE p

\* (\d+)\/(\d+) matched at position p: the positions after each group, or <<>>.
SingleEnds(s, p, e1, e2) ==
    IF e1 > p /\ e1 <= Len(s) /\ s[e1] = "/" /\ e2 > e1 + 1 THEN <<e1, e2>> ELSE <<>>

SingleFrom(s, p, e1) == SingleEnds(s, p, e1, DigitsEnd(s, e1 + 1))

SingleAt(s, p) == SingleFrom(s, p, DigitsEnd(s, p))

\* (\d+)\/(\d+)-(\d+)\/(\d+) matched at position p: the four positions, or <<>>.
RangeJoin(a, b) == IF b # <<>> THEN a \o b ELSE <<>>

RangeTail(s, a) ==
    IF a # <<>> /\ a[2] <= Len(s) /\ s[a[2]] = "-"
    THEN RangeJoin(a, SingleAt(s, a[2] + 1)) ELSE <<>>

RangeAt(s, p) == RangeTail(s, SingleAt(s, p))

\* The four groups of the match at p that ends its groups at m.
RangeGroups(s, p, m) ==
    <<SubSeq(s, p, m[1] - 1), SubSeq(s, m[1] + 1, m[2] - 1),
      SubSeq(s, m[2] + 1, m[3] - 1), SubSeq(s, m[3] + 1, m[4] - 1)>>

RangeLeftmost(s, ps) ==
    IF ps = {} THEN <<>>
    ELSE RangeGroups(s, CHOOSE q \in ps : \A r \in ps : q <= r,
                     RangeAt(s, CHOOSE q \in ps : \A r \in ps : q <= r))

\* re.search(r'(\d+)\/(\d+)-(\d+)\/(\d+)', s): the four groups of the leftmost
\* match, or <<>> when there is none.
RangeSearch(s) == RangeLeftmost(s, {p \in 1..Len(s) : RangeAt(s, p) # <<>>})

\* re.search(r'(\d+)\/(\d+)', s) finds a match.
SingleSearch(s) == \E p \in 1..Len(s) : SingleAt(s, p) # <<>>

\* Python's order on str: lexicographic by code point.
RECURSIVE StrLess(_, _)
StrLess(a, b) ==
    IF b = <<>> THEN FALSE
    ELSE IF a = <<>> THEN TRUE
    ELSE IF Ord(Head(a)) # Ord(Head(b)) THEN Ord(Head(a)) < Ord(Head(b))
    ELSE StrLess(Tail(a), Tail(b))

\* sorted(keys) with group and index compared as numbers.
RECURSIVE SortedNumeric(_)
SortedNumeric(S) ==
    IF S = {} THEN <<>>
    ELSE LET m == CHOOSE x \in S : \A y \in S \ {x} :
                     \/ Len(x) < Len(y)
                     \/ Len(x) = Len(y) /\ StrLess(x, y)
         IN <<m>> \o SortedNumeric(S \ {m})

\* sorted(keys)
RECURSIVE Sorted(_)
Sorted(S) == IF S = {} THEN <<>>
             ELSE LET m == CHOOSE x \in S : \A y \in S \ {x} : StrLess(x, y)
                  IN <<m>> \o Sorted(S \ {m})

-----------------------------------------------------------------------------
(* edgeswitch_vlan: the VLAN existence phase *)

\* search_obj_in_list(vlan_id, lst): the first o with o['vlan_id'] == str(vlan_id)
search_obj_in_list(vlan_id, lst) ==
    LET ks == {k \in DOMAIN lst : PyEq(lst[k].vlan_id, PyStrOf(vlan_id))}
    IN IF ks = {} THEN PyNone
       ELSE lst[CHOOSE k \in ks : \A j \in ks : k <= j]

Found(o) == "t" \notin DOMAIN o

\* VlanWantCmds that renames an observed VLAN whenever a name is supplied.
VlanWantCmdsAlwaysRenames(w, hv) ==
    LET obj_in_have == search_obj_in_list(w.vlan_id, hv)
        nameCmd == <<"vlan name " \o Format(w.vlan_id) \o " \"" \o Format(w.name) \o "\"">>
    IN IF w.state = "absent"
       THEN IF Found(obj_in_have) THEN <<"no vlan " \o Format(w.vlan_id)>> ELSE <<>>
       ELSE IF ~Found(obj_in_have)
            THEN <<"vlan " \o Format(w.vlan_id)>>
                 \o (IF Truthy(w.name) THEN nameCmd ELSE <<>>)
            ELSE IF Truthy(w.name) THEN nameCmd ELSE <<>>

\* One iteration of "for w in want" of map_vlans_to_commands: what it appends.
VlanWantCmds(w, hv) ==
    LET obj_in_have == search_obj_in_list(w.vlan_id, hv)
        nameCmd == <<"vlan name " \o Format(w.vlan_id) \o " \"" \o Format(w.name) \o "\"">>
    IN IF w.state = "absent"
       THEN IF Found(obj_in_have) THEN <<"no vlan " \o Format(w.vlan_id)>> ELSE <<>>
       ELSE IF ~Found(obj_in_have)
            THEN <<"vlan " \o Format(w.vlan_id)>>
                 \o (IF Truthy(w.name) THEN nameCmd ELSE <<>>)
            ELSE IF Truthy(w.name) /\ ~PyEq(w.name, obj_in_have.name)
                 THEN nameCmd ELSE <<>>

\* The purge loop of map_vlans_to_commands, from the k-th observed VLAN on.
RECURSIVE VlanPurgeCmds(_, _, _)
VlanPurgeCmds(wt, hv, k) ==
    IF k > Len(hv) THEN <<>>
    ELSE LET h == hv[k]
             obj_in_want == search_obj_in_list(h.vlan_id, wt)
         IN (IF ~Found(obj_in_want) /\ ~PyEq(h.vlan_id, PyStr("1"))
             THEN <<"no vlan " \o Format(h.vlan_id)>> ELSE <<>>)
            \o VlanPurgeCmds(wt, hv, k + 1)

\* The end of map_vlans_to_commands: purge, then the prologue and epilogue.
VlanFinish(cmds, wt, hv, pg) ==
    LET all == cmds \o (IF pg THEN VlanPurgeCmds(wt, hv, 1) ELSE <<>>)
    IN IF all # <<>> THEN <<"vlan database">> \o all \o <<"exit">> ELSE <<>>

\* parse_vlan_brief: one record per line of 'show vlan brief', both fields text.
parse_vlan_brief(vlan_out) ==
    [k \in DOMAIN vlan_out |->
        [vlan_id |-> PyStr(ToString(vlan_out[k].id)), name |-> PyStr(vlan_out[k].name)]]

-----------------------------------------------------------------------------
(* edgeswitch_vlan: the membership phase *)

\* A dict with the keys ks set to val.
DictSet(d, ks, val) == [k \in (DOMAIN d) \cup ks |-> IF k \in ks THEN val ELSE d[k]]

\* The keys one token of an interface list stands for in set_interfaces, match
\* being what re.search returned for it.
MatchKeys(tok, match) ==
    IF match # <<>>
    THEN {match[1] \o <<"/">> \o IntChars(x) : x \in ParseInt(match[2])..ParseInt(match[4])}
    ELSE {tok}

TokenKeys(tok) == MatchKeys(tok, RangeSearch(tok))

\* set_interfaces(interfaces_param, interfaces, action)
RECURSIVE set_interfaces(_, _, _)
set_interfaces(interfaces_param, d, action) ==
    IF interfaces_param = <<>> THEN d
    ELSE set_interfaces(Tail(interfaces_param),
                        DictSet(d, TokenKeys(Head(interfaces_param)), action), action)

\* The loop "for key, value in ports.items()": the auto default of every port.
AutoInterfaces(w, pts) ==
    LET ks == IF w.auto_tag THEN DOMAIN pts
              ELSE IF w.auto_exclude
                   THEN {k \in DOMAIN pts : ~PyIn(w.vlan_id, pts[k].forbidden_vlans)}
              ELSE IF w.auto_untag THEN DOMAIN pts
              ELSE {}
        mode == IF w.auto_tag THEN "tag" ELSE IF w.auto_exclude THEN "exclude" ELSE "untag"
    IN [k \in ks |-> mode]

\* ResolveInterfaces with the explicit lists applied in the opposite order.
ResolveInterfacesTagLast(w, pts) ==
    set_interfaces(w.tagged_interfaces,
        set_interfaces(w.untagged_interfaces,
            set_interfaces(w.excluded_interfaces, AutoInterfaces(w, pts), "exclude"),
            "untag"),
        "tag")

\* The dict "interfaces" of one desired entry, after the three set_interfaces calls.
ResolveInterfaces(w, pts) ==
    set_interfaces(w.excluded_interfaces,
        set_interfaces(w.untagged_interfaces,
            set_interfaces(w.tagged_interfaces, AutoInterfaces(w, pts), "tag"),
            "untag"),
        "exclude")

\* The sub-commands one (interface, VLAN) pair gets for target mode t.
MemberCmds(t, vlan_id, port) ==
    IF t = "exclude"
    THEN IF ~PyIn(vlan_id, port.forbidden_vlans)
         THEN <<"vlan participation exclude " \o Format(vlan_id),
                "no vlan tagging " \o Format(vlan_id)>>
         ELSE <<>>
    ELSE IF t = "untag"
    THEN IF ~PyIn(vlan_id, port.untagged_vlans) \/ ~PyEq(vlan_id, port.pvid_mode)
         THEN <<"vlan pvid " \o Format(vlan_id),
                "vlan participation include " \o Format(vlan_id)>>
         ELSE <<>>
    ELSE IF ~PyIn(vlan_id, port.tagged_vlans)
         THEN <<"vlan participation include " \o Format(vlan_id),
                "vlan tagging " \o Format(vlan_id)>>
         ELSE <<>>

\* The accumulator after the loop "for i, t in interfaces.items()" of one entry.
Accumulate(acc, d, vlan_id, pts) ==
    [k \in (DOMAIN acc) \cup (DOMAIN d) |->
        (IF k \in DOMAIN acc THEN acc[k] ELSE <<>>)
        \o (IF k \in DOMAIN d THEN MemberCmds(d[k], vlan_id, pts[k]) ELSE <<>>)]

\* The final loop of map_interfaces_to_commands over the sorted keys ks.
RECURSIVE EmitInterfaces(_, _)
EmitInterfaces(ks, acc) ==
    IF ks = <<>> THEN <<>>
    ELSE (IF Len(acc[Head(ks)]) > 0
          THEN <<"interface " \o Text(Head(ks))>> \o acc[Head(ks)] ELSE <<>>)
         \o EmitInterfaces(Tail(ks), acc)

\* str.split(',') of a line listing VLAN ids: '' gives [''].
SplitVlans(ids) == IF ids = <<>> THEN <<PyStr("")>>
                   ELSE [k \in DOMAIN ids |-> PyStr(ToString(ids[k]))]

\* parse_interfaces_switchport
parse_interfaces_switchport(cmd_out) ==
    [k \in DOMAIN cmd_out |->
        [interface |-> k,
         pvid_mode |-> PyStr(ToString(cmd_out[k].pvid)),
         untagged_vlans |-> SplitVlans(cmd_out[k].untagged),
         tagged_vlans |-> SplitVlans(cmd_out[k].tagged),
         forbidden_vlans |-> SplitVlans(cmd_out[k].forbidden)]]

-----------------------------------------------------------------------------
(* edgeswitch_vlan: validation *)

\* The first message of a list of checks that is not "", or "".
FirstMsg(msgs) ==
    IF \A k \in DOMAIN msgs : msgs[k] = "" THEN ""
    ELSE msgs[CHOOSE k \in DOMAIN msgs : msgs[k] # "" /\ \A j \in 1..(k - 1) : msgs[j] = ""]

\* The body of the loop of check_parmams_interface, match being what the first
\* re.search returned: the message fail_json gets, or "".
CheckMatch(tok, match) ==
    IF match # <<>>
    THEN IF match[1] # match[3]
         THEN "interface range must be withing same group: " \o Text(tok)
         ELSE ""
    ELSE IF ~SingleSearch(tok) /\ tok # <<"a", "l", "l">>
         THEN "wrong interface format: " \o Text(tok)
         ELSE ""

CheckToken(tok) == CheckMatch(tok, RangeSearch(tok))

\* check_parmams_interface: the message of the first failure, or "".
check_parmams_interface(lst) == FirstMsg([k \in DOMAIN lst |-> CheckToken(lst[k])])

\* c > 1 in check_params
AutoCount(w) == (IF w.auto_tag THEN 1 ELSE 0) + (IF w.auto_untag THEN 1 ELSE 0)
                + (IF w.auto_exclude THEN 1 ELSE 0)

\* The body of "for w in want" of check_params: the failure message, or "".
CheckEntry(w) ==
    IF AutoCount(w) > 1
    THEN "parameters are mutually exclusive: auto_tag, auto_untag, auto_exclude"
    ELSE FirstMsg(<<check_parmams_interface(w.tagged_interfaces),
                    check_parmams_interface(w.untagged_interfaces),
                    check_parmams_interface(w.excluded_interfaces)>>)

\* check_params(module, want): the message fail_json gets, or "" when it returns.
check_params(wt) == FirstMsg([k \in DOMAIN wt |-> CheckEntry(wt[k])])

-----------------------------------------------------------------------------
(* The inputs the model draws from *)

MaxWant == 2

I_0_1 == <<"0", "/", "1">>
I_0_2 == <<"0", "/", "2">>
I_0_9 == <<"0", "/", "9">>
I_0_10 == <<"0", "/", "1", "0">>
R_0_1_0_2 == <<"0", "/", "1", "-", "0", "/", "2">>
R_0_1_1_2 == <<"0", "/", "1", "-", "1", "/", "2">>
R_1_1_1_2 == <<"1", "/", "1", "-", "1", "/", "2">>
T_all == <<"a", "l", "l">>
T_lag == <<"l", "a", "g">>
T_x0_1 == <<"x", "0", "/", "1">>

Entry(vid, nm, st, at, au, ae, ti, ui, ei) ==
    [vlan_id |-> PyInt(vid), name |-> nm, state |-> st,
     auto_tag |-> at, auto_untag |-> au, auto_exclude |-> ae,
     tagged_interfaces |-> ti, untagged_interfaces |-> ui, excluded_interfaces |-> ei]

States == {"present", "absent"}
WantNames == {PyNone, PyStr("voice"), PyStr("data")}

\* Lists of at most MaxWant entries of E.
SeqsUpTo(E) == UNION {[1..n -> E] : n \in 0..MaxWant}

\* 'show vlan brief': VLAN 1 always exists; VLANs 2 and 3 may, under either name.
VlanLine(n, nm) == IF nm = "" THEN <<>> ELSE <<[id |-> n, name |-> nm]>>
VlanTables == {<<[id |-> 1, name |-> "default"]>> \o VlanLine(2, a) \o VlanLine(3, b) :
                  a \in {"", "voice", "data"}, b \in {"", "voice", "data"}}

\* 'show interfaces switchport' of a three-port switch.
Port(pv, un, tg, fb) == [pvid |-> pv, untagged |-> un, tagged |-> tg, forbidden |-> fb]
Switch(a, b, c) == (I_0_1 :> a) @@ (I_0_2 :> b) @@ (I_0_10 :> c)
PortTables ==
    { Switch(Port(1, <<1>>, <<>>, <<>>), Port(1, <<1>>, <<>>, <<>>), Port(1, <<1>>, <<>>, <<>>)),
      Switch(Port(2, <<2>>, <<>>, <<1>>), Port(1, <<1>>, <<2>>, <<>>), Port(1, <<1>>, <<>>, <<2>>)),
      Switch(Port(1, <<1, 2>>, <<>>, <<>>), Port(2, <<1, 2>>, <<>>, <<>>), Port(1, <<>>, <<1, 2>>, <<>>)),
      Switch(Port(1, <<1>>, <<2>>, <<>>), Port(1, <<1>>, <<2>>, <<>>), Port(1, <<1>>, <<2>>, <<>>)) }

DefaultPorts == Switch(Port(1, <<1>>, <<>>, <<>>), Port(1, <<1>>, <<>>, <<>>), Port(1, <<1>>, <<>>, <<>>))

\* Family 1: VLAN existence (ids, names, states, purge), no interface lists.
VlanEntries == {Entry(n, nm, st, FALSE, FALSE, FALSE, <<>>, <<>>, <<>>) :
                   n \in {1, 2}, nm \in WantNames, st \in States}

\* Family 2: several entries with interface lists, through the whole of main().
MemberEntries ==
    { Entry(2, PyStr("voice"), "present", FALSE, FALSE, FALSE, <<I_0_2, I_0_10>>, <<>>, <<>>),
      Entry(2, PyNone, "present", FALSE, FALSE, FALSE, <<>>, <<I_0_1>>, <<>>),
      Entry(2, PyNone, "present", FALSE, FALSE, TRUE, <<I_0_10>>, <<>>, <<>>),
      Entry(1, PyNone, "present", FALSE, TRUE, FALSE, <<>>, <<>>, <<I_0_2>>),
      Entry(1, PyNone, "present", TRUE, FALSE, FALSE, <<>>, <<>>, <<>>),
      Entry(2, PyNone, "present", FALSE, FALSE, FALSE, <<I_0_9>>, <<>>, <<>>),
      Entry(2, PyNone, "absent", FALSE, FALSE, FALSE, <<I_0_1>>, <<>>, <<>>),
      Entry(2, PyNone, "present", FALSE, FALSE, FALSE, <<>>, <<>>, <<>>) }

\* Family 3: one entry, every combination of auto flags and interface lists.
InterfaceLists == { <<>>, <<I_0_1>>, <<I_0_2, I_0_10>>, <<R_0_1_0_2>>, <<T_all>>,
                    <<I_0_9>>, <<R_0_1_1_2>>, <<T_x0_1>>, <<T_lag>> }
WideEntries == {Entry(2, PyNone, "present", at, au, ae, ti, ui, ei) :
                   at \in BOOLEAN, au \in BOOLEAN, ae \in BOOLEAN,
                   ti \in InterfaceLists, ui \in InterfaceLists, ei \in InterfaceLists}

------------------------------------------------------------------------

\* Family 4: VLAN 100 of the documented examples, on a switch with or without it.
ScenarioEntries == {Entry(100, nm, st, FALSE, FALSE, FALSE, <<>>, <<>>, <<>>) :
                       nm \in WantNames, st \in States}
ScenarioTables == { <<>>,
                    <<[id |-> 1, name |-> "default"]>>,
                    <<[id |-> 1, name |-> "default"], [id |-> 100, name |-> "voice"]>>,
                    <<[id |-> 1, name |-> "default"], [id |-> 100, name |-> "data"]>> }

-----------------------------------------------------------------------------
(* edgeswitch_vlan: main() *)

NoResult == [changed |-> FALSE, commands |-> <<>>, failed |-> FALSE, msg |-> ""]

InitVlan(wt, dv, pg, cm) ==
    /\ want = wt
    /\ device = dv
    /\ purge = pg
    /\ check_mode = cm
    /\ have = <<>>
    /\ ports = <<>>
    /\ pc = "map_config_to_obj"
    /\ i = 1
    /\ commands = <<>>
    /\ interfaces = <<>>
    /\ interfaces_cmds = <<>>
    /\ result = NoResult
    /\ submitted = <<>>
    /\ params = <<>>
    /\ warnings = <<>>

Init ==
    \/ \E wt \in SeqsUpTo(VlanEntries), vt \in VlanTables, pg \in BOOLEAN :
          InitVlan(wt, [vlans |-> vt, switchport |-> DefaultPorts], pg, FALSE)
    \/ \E wt \in SeqsUpTo(MemberEntries), pt \in PortTables, cm \in BOOLEAN,
          vt \in {<<[id |-> 1, name |-> "default"]>>,
                  <<[id |-> 1, name |-> "default"], [id |-> 2, name |-> "voice"]>>} :
          InitVlan(wt, [vlans |-> vt, switchport |-> pt], FALSE, cm)
    \/ \E w \in WideEntries, pt \in PortTables :
          InitVlan(<<w>>, [vlans |-> <<[id |-> 1, name |-> "default"],
                                       [id |-> 2, name |-> "voice"]>>,
                           switchport |-> pt], FALSE, FALSE)
    \/ \E w \in ScenarioEntries, vt \in ScenarioTables, pg \in BOOLEAN, cm \in BOOLEAN :
          InitVlan(<<w>>, [vlans |-> vt, switchport |-> DefaultPorts], pg, cm)

\* have = map_config_to_obj(module)
MapConfigToObj ==
    /\ pc = "map_config_to_obj"
    /\ have' = parse_vlan_brief(device.vlans)
    /\ pc' = "check_params"
    /\ UNCHANGED <<want, purge, check_mode, device, ports, i, commands,
                   interfaces, interfaces_cmds, result, submitted>>
    /\ UNCHANGED notVlanVars

\* check_params(module, want), when it calls fail_json
CheckParamsFail ==
    /\ pc = "check_params"
    /\ \E msg \in {check_params(want)} :
          /\ msg # ""
          /\ result' = [result EXCEPT !.failed = TRUE, !.msg = msg]
    /\ pc' = "failed"
    /\ UNCHANGED <<want, have, purge, check_mode, device, ports, i, commands,
                   interfaces, interfaces_cmds, submitted>>
    /\ UNCHANGED notVlanVars

\* check_params(module, want), when it returns
CheckParamsOk ==
    /\ pc = "check_params"
    /\ check_params(want) = ""
    /\ pc' = "map_vlans_to_commands"
    /\ i' = 1
    /\ commands' = <<>>
    /\ UNCHANGED <<want, have, purge, check_mode, device, ports,
                   interfaces, interfaces_cmds, result, submitted>>
    /\ UNCHANGED notVlanVars

\* map_vlans_to_commands: one iteration of "for w in want"
MapVlansStep ==
    /\ pc = "map_vlans_to_commands"
    /\ i <= Len(want)
    /\ commands' = commands \o VlanWantCmds(want[i], have)
    /\ i' = i + 1
    /\ UNCHANGED <<want, have, purge, check_mode, device, ports, pc,
                   interfaces, interfaces_cmds, result, submitted>>
    /\ UNCHANGED notVlanVars

\* map_vlans_to_commands: after the loop, up to "result['commands'] = commands"
MapVlansReturn ==
    /\ pc = "map_vlans_to_commands"
    /\ i > Len(want)
    /\ commands' = VlanFinish(commands, want, have, purge)
    /\ result' = [result EXCEPT !.commands = commands']
    /\ pc' = "run_commands"
    /\ UNCHANGED <<want, have, purge, check_mode, device, ports, i,
                   interfaces, interfaces_cmds, submitted>>
    /\ UNCHANGED notVlanVars

\* "if commands: if not module.check_mode: run_commands(...)", then map_ports_to_obj
RunCommands ==
    /\ pc = "run_commands"
    /\ submitted' = IF commands # <<>> /\ ~check_mode
                    THEN Append(submitted, commands) ELSE submitted
    /\ result' = [result EXCEPT !.changed = (commands # <<>>)]
    /\ ports' = parse_interfaces_switchport(device.switchport)
    /\ pc' = "map_interfaces_to_commands"
    /\ i' = 1
    /\ interfaces_cmds' = <<>>
    /\ UNCHANGED <<want, have, purge, check_mode, device, commands, interfaces>>
    /\ UNCHANGED notVlanVars

\* map_interfaces_to_commands: one iteration of "for w in want" for an entry that
\* is skipped (state absent)
MapInterfacesSkip ==
    /\ pc = "map_interfaces_to_commands"
    /\ i <= Len(want)
    /\ want[i].state # "present"
    /\ i' = i + 1
    /\ UNCHANGED <<want, have, purge, check_mode, device, ports, pc, commands,
                   interfaces, interfaces_cmds, result, submitted>>
    /\ UNCHANGED notVlanVars

\* map_interfaces_to_commands: one iteration of "for w in want" that completes
MapInterfacesStep ==
    /\ pc = "map_interfaces_to_commands"
    /\ i <= Len(want)
    /\ want[i].state = "present"
    /\ \E d \in {ResolveInterfaces(want[i], ports)} :
          /\ DOMAIN d \subseteq DOMAIN ports
          /\ interfaces' = d
          /\ interfaces_cmds' = Accumulate(interfaces_cmds, d, want[i].vlan_id, ports)
    /\ i' = i + 1
    /\ UNCHANGED <<want, have, purge, check_mode, device, ports, pc, commands,
                   result, submitted>>
    /\ UNCHANGED notVlanVars

\* map_interfaces_to_commands: "port = ports[i]" raises KeyError
MapInterfacesKeyError ==
    /\ pc = "map_interfaces_to_commands"
    /\ i <= Len(want)
    /\ want[i].state = "present"
    /\ \E d \in {ResolveInterfaces(want[i], ports)} :
          /\ ~(DOMAIN d \subseteq DOMAIN ports)
          /\ interfaces' = d
    /\ result' = [result EXCEPT !.failed = TRUE, !.msg = "KeyError"]
    /\ pc' = "failed"
    /\ UNCHANGED <<want, have, purge, check_mode, device, ports, i, commands,
                   interfaces_cmds, submitted>>
    /\ UNCHANGED notVlanVars

\* map_interfaces_to_commands: the sorted emission, and its return
MapInterfacesReturn ==
    /\ pc = "map_interfaces_to_commands"
    /\ i > Len(want)
    /\ commands' = EmitInterfaces(Sorted(DOMAIN interfaces_cmds), interfaces_cmds)
    /\ pc' = "load_config"
    /\ UNCHANGED <<want, have, purge, check_mode, device, ports, i,
                   interfaces, interfaces_cmds, result, submitted>>
    /\ UNCHANGED notVlanVars

\* The end of main() if load_config were called in check mode too.
LoadConfigInCheckMode ==
    /\ pc = "load_config"
    /\ submitted' = IF commands # <<>> THEN Append(submitted, commands) ELSE submitted
    /\ result' = [result EXCEPT !.commands = result.commands \o commands,
                                !.changed = result.changed \/ commands # <<>>]
    /\ pc' = "done"
    /\ UNCHANGED <<want, have, purge, check_mode, device, ports, i, commands,
                   interfaces, interfaces_cmds>>
    /\ UNCHANGED notVlanVars

\* The end of main(): extend the result, load_config unless check mode, exit_json
LoadConfig ==
    /\ pc = "load_config"
    /\ submitted' = IF commands # <<>> /\ ~check_mode
                    THEN Append(submitted, commands) ELSE submitted
    /\ result' = [result EXCEPT !.commands = result.commands \o commands,
                                !.changed = result.changed \/ commands # <<>>]
    /\ pc' = "done"
    /\ UNCHANGED <<want, have, purge, check_mode, device, ports, i, commands,
                   interfaces, interfaces_cmds>>
    /\ UNCHANGED notVlanVars

Next ==
    \/ MapConfigToObj
    \/ CheckParamsFail
    \/ CheckParamsOk
    \/ MapVlansStep
    \/ MapVlansReturn
    \/ RunCommands
    \/ MapInterfacesSkip
    \/ MapInterfacesStep
    \/ MapInterfacesKeyError
    \/ MapInterfacesReturn
    \/ LoadConfig

Spec == Init /\ [][Next]_vars

-----------------------------------------------------------------------------
(* Properties of the VLAN existence phase *)

\* The position in main() where map_vlans_to_commands has just returned.
VlansReturned == pc = "run_commands"

\* VLAN n is on the switch, as the observed list tells it.
ObservedVlan(n, hv) == \E k \in DOMAIN hv : hv[k].vlan_id.v = ToString(n)

\* The name the observed list gives VLAN n.
ObservedName(n, hv) ==
    hv[CHOOSE k \in DOMAIN hv : hv[k].vlan_id.v = ToString(n)
                                /\ \A j \in 1..(k - 1) : hv[j].vlan_id.v # ToString(n)].name.v

\* Some desired entry has VLAN id n.
DesiredVlan(n, wt) == \E k \in DOMAIN wt : ToString(wt[k].vlan_id.v) = n

\* C1: the command sequence map_vlans_to_commands returns never contains
\* 'no vlan 1', whatever the desired list, the observed list and purge.
C1_NeverDeletesDefaultVlan ==
    VlansReturned => \A k \in DOMAIN commands : commands[k] # "no vlan 1"

\* The purge deletes the claim expects: one per observed VLAN that is not VLAN 1
\* and that no desired entry names, in the order observed.
PurgeWanted(wt, hv) ==
    LET Stale(h) == h.vlan_id.v # "1" /\ ~DesiredVlan(h.vlan_id.v, wt)
        stale == SelectSeq(hv, Stale)
    IN [k \in DOMAIN stale |-> "no vlan " \o stale[k].vlan_id.v]

\* 'vlan database' ... 'exit' around a non-empty list.
Wrapped(cmds) == IF cmds = <<>> THEN <<>> ELSE <<"vlan database">> \o cmds \o <<"exit">>

\* C2: with purge set, the deletes that map_vlans_to_commands adds after the loop
\* over the desired entries are exactly 'no vlan N' for the observed VLANs N that
\* are not 1 and that no desired entry names.
C2_PurgeDeletesExactlyUndesired ==
    [][(pc = "map_vlans_to_commands" /\ pc' = "run_commands" /\ purge)
         => commands' = Wrapped(commands \o PurgeWanted(want, have))]_vars

\* What the claim expects a desired entry with state present to contribute.
PresentWanted(w, hv) ==
    LET create == "vlan " \o ToString(w.vlan_id.v)
        rename == IF w.name.t = "str"
                  THEN <<"vlan name " \o ToString(w.vlan_id.v) \o " \"" \o w.name.v \o "\"">>
                  ELSE <<>>
    IN IF ~ObservedVlan(w.vlan_id.v, hv) THEN <<create>> \o rename
       ELSE IF w.name.t = "str" /\ w.name.v # ObservedName(w.vlan_id.v, hv) THEN rename
       ELSE <<>>

\* C3: a desired entry with state present contributes 'vlan N' and then, if a name
\* was supplied, 'vlan name N "<name>"' when VLAN N is not observed, and only the
\* name command, if a name was supplied and differs, when it is observed; a
\* non-empty result is wrapped in 'vlan database' ... 'exit'; VLAN 100 named voice
\* on a switch without VLANs gives the four documented commands.
C3_PresentEntryCommands ==
    [][/\ (pc = "map_vlans_to_commands" /\ i <= Len(want) /\ want[i].state = "present")
            => commands' = commands \o PresentWanted(want[i], have)
       /\ (pc = "map_vlans_to_commands" /\ pc' = "run_commands" /\ ~purge)
            => commands' = Wrapped(commands)
       /\ (pc = "map_vlans_to_commands" /\ pc' = "run_commands" /\ commands' # <<>>)
            => /\ Head(commands') = "vlan database"
               /\ commands'[Len(commands')] = "exit"
               /\ SubSeq(commands', 2, Len(commands) + 1) = commands
       /\ (pc' = "run_commands" /\ have = <<>> /\ Len(want) = 1
           /\ want[1].vlan_id = PyInt(100) /\ want[1].name = PyStr("voice")
           /\ want[1].state = "present")
            => commands' = <<"vlan database", "vlan 100", "vlan name 100 \"voice\"", "exit">>
      ]_vars

\* Reached: VLAN 100 named voice was created on a switch without VLANs.
C3_Witness ==
    /\ VlansReturned
    /\ have = <<>>
    /\ commands = <<"vlan database", "vlan 100", "vlan name 100 \"voice\"", "exit">>

-----------------------------------------------------------------------------
(* Properties of the membership phase *)

\* The interface identifier group/index.
IfName(g, x) == IntChars(g) \o <<"/">> \o IntChars(x)

\* The numbers the interface identifiers of the model are made of.
IfNumbers == {0, 1, 2, 9, 10}

\* What a token of an interface list stands for: the interfaces g/a .. g/b of a
\* range g/a-g/b, and itself otherwise.
Expand(tok) ==
    IF \E n \in DOMAIN tok : tok[n] = "-"
    THEN LET rs == {q \in IfNumbers \X IfNumbers \X IfNumbers :
                       tok = IfName(q[1], q[2]) \o <<"-">> \o IfName(q[1], q[3])}
         IN IF rs = {} THEN {tok}
            ELSE UNION {{IfName(r[1], x) : x \in r[2]..r[3]} : r \in rs}
    ELSE {tok}

ExpandAll(lst) == UNION {Expand(lst[k]) : k \in DOMAIN lst}

\* The auto default of a desired entry, "none" when it has none.
AutoDefault(w) == IF w.auto_tag THEN "tag"
                  ELSE IF w.auto_untag THEN "untag"
                  ELSE IF w.auto_exclude THEN "exclude"
                  ELSE "none"

\* The target mode of interface k, given the expanded excluded, untagged and
\* tagged lists, the auto default and the observed ports.
ModeAmong(ex, un, tg, auto, observed, k) ==
    IF k \in ex THEN "exclude"
    ELSE IF k \in un THEN "untag"
    ELSE IF k \in tg THEN "tag"
    ELSE IF k \in observed THEN auto
    ELSE "none"

ModesAmong(ex, un, tg, auto, observed) ==
    [k \in {x \in ex \cup un \cup tg \cup observed :
               ModeAmong(ex, un, tg, auto, observed, x) # "none"} |->
        ModeAmong(ex, un, tg, auto, observed, k)]

\* The target modes the claim gives the interfaces for desired entry w.
TargetModes(w, pts) ==
    ModesAmong(ExpandAll(w.excluded_interfaces), ExpandAll(w.untagged_interfaces),
               ExpandAll(w.tagged_interfaces), AutoDefault(w), DOMAIN pts)

\* VLAN n is in a list of VLAN ids scraped from the switch.
ListsVlan(n, lst) == \E k \in DOMAIN lst : lst[k].v = ToString(n)

\* The observed port already has VLAN n in mode t.
Satisfied(t, n, port) ==
    CASE t = "exclude" -> ListsVlan(n, port.forbidden_vlans)
      [] t = "untag"   -> ListsVlan(n, port.untagged_vlans) /\ port.pvid_mode.v = ToString(n)
      [] t = "tag"     -> ListsVlan(n, port.tagged_vlans)

\* The command pair of mode t for VLAN n.
ModePair(t, n) ==
    CASE t = "exclude" -> <<"vlan participation exclude " \o ToString(n),
                            "no vlan tagging " \o ToString(n)>>
      [] t = "untag"   -> <<"vlan pvid " \o ToString(n),
                            "vlan participation include " \o ToString(n)>>
      [] t = "tag"     -> <<"vlan participation include " \o ToString(n),
                            "vlan tagging " \o ToString(n)>>

\* Every mode of modes is already satisfied for VLAN n by the observed ports.
ModesSatisfied(modes, n, pts) ==
    \A k \in DOMAIN modes : k \in DOMAIN pts /\ Satisfied(modes[k], n, pts[k])

\* Every target mode of every desired present entry is already satisfied.
AllSatisfied ==
    \A j \in DOMAIN want :
        want[j].state = "present" =>
            ModesSatisfied(TargetModes(want[j], ports), want[j].vlan_id.v, ports)

\* C4: for a desired present VLAN and an interface with a target mode, no
\* sub-command is added when the observed port already satisfies the mode, and
\* the mode's command pair otherwise; so when every target mode is satisfied the
\* returned command sequence is empty.
C4_MembershipIdempotent ==
    [][/\ (pc = "map_interfaces_to_commands" /\ pc' = pc /\ i <= Len(want)
           /\ want[i].state = "present")
            => \A k \in DOMAIN interfaces' :
                  interfaces_cmds'[k] =
                      (IF k \in DOMAIN interfaces_cmds THEN interfaces_cmds[k] ELSE <<>>)
                      \o (IF Satisfied(interfaces'[k], want[i].vlan_id.v, ports[k])
                          THEN <<>> ELSE ModePair(interfaces'[k], want[i].vlan_id.v))
       /\ (pc = "map_interfaces_to_commands" /\ pc' = "load_config" /\ AllSatisfied)
            => commands' = <<>>
      ]_vars

\* The position of the 'interface k' header in the returned commands, 0 if none.
HeaderAt(k) ==
    IF \E n \in DOMAIN commands : commands[n] = "interface " \o Text(k)
    THEN CHOOSE n \in DOMAIN commands : commands[n] = "interface " \o Text(k)
    ELSE 0

\* group and index of an interface identifier group/index
SlashAt(k) == CHOOSE n \in DOMAIN k : k[n] = "/"
GroupOf(k) == ParseInt(SubSeq(k, 1, SlashAt(k) - 1))
IndexOf(k) == ParseInt(SubSeq(k, SlashAt(k) + 1, Len(k)))

\* (group, index) order, both compared as numbers.
NumericBefore(a, b) ==
    GroupOf(a) < GroupOf(b) \/ (GroupOf(a) = GroupOf(b) /\ IndexOf(a) < IndexOf(b))

\* Order of character strings: at the first difference the smaller code point, or
\* a proper prefix.
TextBefore(a, b) ==
    \E n \in 0..Len(a) :
        /\ n <= Len(b)
        /\ SubSeq(a, 1, n) = SubSeq(b, 1, n)
        /\ \/ n = Len(a) /\ n < Len(b)
           \/ n < Len(a) /\ n < Len(b) /\ Ord(a[n + 1]) < Ord(b[n + 1])

\* map_interfaces_to_commands has just returned.
MembershipReturned == pc = "load_config"

\* The 'interface X' blocks of the membership commands are in ascending
\* (group, index) order, both compared as numbers, so 0/2 comes before 0/10.
MembershipInNumericOrder ==
    MembershipReturned =>
        \A a \in DOMAIN interfaces_cmds, b \in DOMAIN interfaces_cmds :
            (HeaderAt(a) > 0 /\ HeaderAt(b) > 0 /\ NumericBefore(a, b))
                => HeaderAt(a) < HeaderAt(b)

\* In the VLAN membership commands the 'interface X' blocks are in ascending
\* order of the identifier compared as a character string (0/10 before 0/2), each
\* interface with sub-commands having exactly one block.
MembershipInTextOrder ==
    MembershipReturned =>
        /\ \A a \in DOMAIN interfaces_cmds, b \in DOMAIN interfaces_cmds :
              (HeaderAt(a) > 0 /\ HeaderAt(b) > 0 /\ TextBefore(a, b))
                  => HeaderAt(a) < HeaderAt(b)
        /\ \A a \in DOMAIN interfaces_cmds :
              (interfaces_cmds[a] # <<>>) <=> (HeaderAt(a) > 0)

\* C7: the dict of target modes of a desired present entry gives an interface
\* exclude if it is in the expanded excluded_interfaces, else untag if in the
\* expanded untagged_interfaces, else tag if in the expanded tagged_interfaces,
\* else the auto default if one is set and the interface is an observed port.
C7_TargetModePrecedence ==
    /\ (pc = "map_interfaces_to_commands" /\ i > 1 /\ want[i - 1].state = "present")
          => interfaces = TargetModes(want[i - 1], ports)
    /\ (pc = "failed" /\ result.msg = "KeyError")
          => interfaces = TargetModes(want[i], ports)

\* Reached: an entry with auto_exclude and 0/10 listed as tagged was resolved.
C7_Witness ==
    /\ pc = "map_interfaces_to_commands"
    /\ i > 1
    /\ want[i - 1].auto_exclude
    /\ want[i - 1].tagged_interfaces = <<I_0_10>>
    /\ interfaces[I_0_10] = "tag"
    /\ interfaces[I_0_1] = "exclude"

\* Every token of every interface list is 'all' or an observed interface, and no
\* entry sets two auto defaults.
OnlyAllOrObserved ==
    \A j \in DOMAIN want :
        /\ Cardinality({f \in {"auto_tag", "auto_untag", "auto_exclude"} : want[j][f]}) <= 1
        /\ \A f \in {"tagged_interfaces", "untagged_interfaces", "excluded_interfaces"} :
              \A n \in DOMAIN want[j][f] :
                  want[j][f][n] = T_all \/ want[j][f][n] \in DOMAIN device.switchport

\* C8: 'all' in an interface list is accepted and command generation completes
\* without error, the mode being applied to every observed interface.
C8_AllMeansEveryInterface ==
    /\ (pc = "failed") => ~OnlyAllOrObserved
    /\ (pc = "map_interfaces_to_commands" /\ i > 1 /\ want[i - 1].state = "present"
        /\ OnlyAllOrObserved /\ want[i - 1].excluded_interfaces = <<T_all>>)
          => \A k \in DOMAIN ports : k \in DOMAIN interfaces /\ interfaces[k] = "exclude"

\* Token shapes, as the claim words them.
IsRangeToken(tok) ==
    \E g \in IfNumbers, a \in IfNumbers, h \in IfNumbers, b \in IfNumbers :
        tok = IfName(g, a) \o <<"-">> \o IfName(h, b)

CrossGroupRange(tok) ==
    \E g \in IfNumbers, a \in IfNumbers, h \in IfNumbers, b \in IfNumbers :
        g # h /\ tok = IfName(g, a) \o <<"-">> \o IfName(h, b)

IsSingleToken(tok) == \E g \in IfNumbers, a \in IfNumbers : tok = IfName(g, a)

BadToken(tok) ==
    \/ CrossGroupRange(tok)
    \/ ~IsRangeToken(tok) /\ ~IsSingleToken(tok) /\ tok # T_all

BadEntry(w) ==
    \/ Cardinality({f \in {"auto_tag", "auto_untag", "auto_exclude"} : w[f]}) > 1
    \/ \E f \in {"tagged_interfaces", "untagged_interfaces", "excluded_interfaces"} :
          \E n \in DOMAIN w[f] : BadToken(w[f][n])

\* check_params has run.
Validated == pc \notin {"map_config_to_obj", "check_params"}

\* fail_json was called by check_params.
Rejected == pc = "failed" /\ result.msg # "KeyError"

\* C9: check_params fails the invocation exactly when some entry sets more than
\* one auto default, lists a range across two groups, or lists a token that is
\* neither a range, nor exactly group/idx, nor 'all'.
C9_RejectsExactlyBadEntries ==
    Validated => (Rejected <=> \E j \in DOMAIN want : BadEntry(want[j]))

\* C10: when a run that is not a dry run ends with a fatal error, no command was
\* submitted to the device.
C10_NoCommandsBeforeFatalError ==
    (~check_mode /\ pc = "failed") => submitted = <<>>

-----------------------------------------------------------------------------
(* edgeswitch_interface *)

\* The MTU values of the model, and int(value) for their texts.
MtuValues == {1500, 1518, 9216}
IntOfText(txt) == CHOOSE n \in MtuValues : ToString(n) = txt

\* validate_mtu(value, module) calls fail_json
validate_mtu(value) ==
    Truthy(value) /\ ~(1518 <= IntOfText(value.v) /\ IntOfText(value.v) <= 9216)

\* An aggregate item after "if item.get(key) is None: item[key] = module.params[key]"
MergeItem(item, pr) ==
    [key \in DOMAIN item |-> IF item[key].t = "none" THEN pr[key] ELSE item[key]]

\* "if 'enabled' in d and d['enabled'] is not None": d with d['disable'] set
WithDisable(d, enabled) ==
    IF enabled.t # "none" THEN ("disable" :> ~enabled.v) @@ d ELSE d

\* The dict the non-aggregate branch of map_params_to_obj builds.
SingleObj(pr) ==
    WithDisable([name |-> pr.name, description |-> pr.description,
                 speed |-> pr.speed, mtu |-> pr.mtu], pr.enabled)

\* map_params_to_obj(module), when no validator fails
map_params_to_obj(pr) ==
    IF pr.aggregate # <<>>
    THEN [k \in DOMAIN pr.aggregate |->
             WithDisable(MergeItem(pr.aggregate[k], pr), MergeItem(pr.aggregate[k], pr).enabled)]
    ELSE <<SingleObj(pr)>>

\* map_params_to_obj(module) calls fail_json: some validate_mtu fails
ParamsInvalid(pr) ==
    IF pr.aggregate # <<>>
    THEN \E k \in DOMAIN pr.aggregate : validate_mtu(MergeItem(pr.aggregate[k], pr).mtu)
    ELSE validate_mtu(pr.mtu)

\* map_config_to_obj: one object per interface block of the running config.
if_map_config_to_obj(cfg) ==
    [k \in DOMAIN cfg |->
        [name |-> PyStr(cfg[k].name),
         description |-> IF cfg[k].description = "" THEN PyNone ELSE PyStr(cfg[k].description),
         speed |-> IF cfg[k].speed = "" THEN PyStr("auto") ELSE PyStr(cfg[k].speed),
         mtu |-> IF cfg[k].mtu = "" THEN PyNone ELSE PyStr(cfg[k].mtu),
         disable |-> cfg[k].shutdown]]

\* search_obj_in_list(name, lst) of edgeswitch_interface
search_obj_by_name(name, lst) ==
    IF \E k \in DOMAIN lst : PyEq(lst[k].name, name)
    THEN lst[CHOOSE k \in DOMAIN lst :
                 PyEq(lst[k].name, name) /\ \A j \in 1..(k - 1) : ~PyEq(lst[j].name, name)]
    ELSE PyNone

\* get_running_mtu(interface, module)
get_running_mtu(interface, dev) == PyStr(dev.max_frame_size)

\* The mtu that map_obj_to_commands compares the desired mtu with.
RunningMtu(w, obj_in_have, dev) ==
    IF Truthy(w.mtu) /\ ~Truthy(obj_in_have.mtu)
    THEN get_running_mtu(w.name, dev) ELSE obj_in_have.mtu

MtuCmds(w, running_mtu) ==
    IF ~PyEq(w.mtu, running_mtu) THEN <<"mtu " \o Format(w.mtu)>> ELSE <<>>

DescriptionCmds(w, obj_in_have) ==
    IF Truthy(w.description)
    THEN IF ~PyEq(w.description, obj_in_have.description)
         THEN <<"description '" \o Format(w.description) \o "'">> ELSE <<>>
    ELSE IF Truthy(obj_in_have.description) THEN <<"no description">> ELSE <<>>

SpeedCmds(w, obj_in_have) ==
    IF Truthy(w.speed) /\ ~PyEq(w.speed, obj_in_have.speed)
    THEN <<"speed " \o w.speed.v>> ELSE <<>>

DisableCmds(w, obj_in_have) ==
    IF "disable" \in DOMAIN w /\ w.disable # obj_in_have.disable
    THEN IF w.disable THEN <<"shutdown">> ELSE <<"no shutdown">>
    ELSE <<>>

\* "if len(cmds) > 0": the header and the sub-commands
WithHeader(name, cmds) ==
    IF Len(cmds) > 0 THEN <<"interface " \o name.v>> \o cmds ELSE <<>>

\* The iteration with the speed sub-command put first.
InterfaceCmdsSpeedFirst(w, obj_in_have, dev) ==
    WithHeader(w.name, SpeedCmds(w, obj_in_have)
                       \o MtuCmds(w, RunningMtu(w, obj_in_have, dev))
                       \o DescriptionCmds(w, obj_in_have)
                       \o DisableCmds(w, obj_in_have))

\* One iteration of "for w in want" of map_obj_to_commands for an interface that
\* is in have: what it adds to commands.
InterfaceCmds(w, obj_in_have, dev) ==
    WithHeader(w.name, MtuCmds(w, RunningMtu(w, obj_in_have, dev))
                       \o DescriptionCmds(w, obj_in_have)
                       \o SpeedCmds(w, obj_in_have)
                       \o DisableCmds(w, obj_in_have))

(* The inputs of edgeswitch_interface *)

Block(nm, ds, sp, mt, sh) ==
    [name |-> nm, description |-> ds, speed |-> sp, mtu |-> mt, shutdown |-> sh]

\* Running configurations: 0/1 in every state the model distinguishes, 0/2 shut.
Configs == {<<Block("0/1", ds, sp, mt, sh), Block("0/2", "", "", "", TRUE)>> :
               ds \in {"", "uplink", "old"}, sp \in {"", "100 full-duplex"},
               mt \in {"", "1518", "9216"}, sh \in BOOLEAN}

FewConfigs == { <<Block("0/1", "", "", "", FALSE), Block("0/2", "", "", "", TRUE)>>,
                <<Block("0/1", "uplink", "100 full-duplex", "9216", FALSE),
                  Block("0/2", "old", "", "1518", TRUE)>> }

Param(nm, ds, sp, mt, en) ==
    [name |-> nm, description |-> ds, speed |-> sp, mtu |-> mt, enabled |-> en]

OptText(S) == {PyNone} \cup {PyStr(x) : x \in S}
OptBool == {PyNone, PyBool(TRUE), PyBool(FALSE)}

\* Family 1: one interface given by the top-level parameters.
SingleParams ==
    {Param(PyStr(nm), ds, sp, mt, en) @@ [aggregate |-> <<>>] :
        nm \in {"0/1", "0/9"}, ds \in OptText({"uplink"}),
        sp \in OptText({"auto", "100 full-duplex"}), mt \in OptText({"1500", "9216"}),
        en \in OptBool}

\* Family 2: an aggregate, with top-level defaults.
Items ==
    { Param(PyStr("0/1"), PyNone, PyNone, PyNone, PyBool(TRUE)),
      Param(PyStr("0/1"), PyStr("uplink"), PyNone, PyStr("9216"), PyNone),
      Param(PyStr("0/2"), PyNone, PyNone, PyNone, PyBool(TRUE)),
      Param(PyStr("0/2"), PyNone, PyStr("100 full-duplex"), PyNone, PyBool(FALSE)),
      Param(PyStr("0/9"), PyStr("uplink"), PyNone, PyNone, PyBool(TRUE)),
      Param(PyStr("0/2"), PyNone, PyNone, PyStr("1500"), PyNone) }

AggregateParams ==
    {Param(PyNone, PyNone, PyNone, mt, en) @@ [aggregate |-> ag] :
        mt \in OptText({"9216"}), en \in {PyNone, PyBool(TRUE)},
        ag \in SeqsUpTo(Items) \ {<<>>}}

(* main() of edgeswitch_interface *)

InitIf(pr, cfg, mfs, cm) ==
    /\ params = pr
    /\ device = [config |-> cfg, max_frame_size |-> mfs]
    /\ check_mode = cm
    /\ want = <<>>
    /\ have = <<>>
    /\ pc = "if_map_params_to_obj"
    /\ i = 1
    /\ commands = <<>>
    /\ warnings = <<>>
    /\ result = NoResult
    /\ submitted = <<>>
    /\ purge = FALSE
    /\ ports = <<>>
    /\ interfaces = <<>>
    /\ interfaces_cmds = <<>>

InitInterface ==
    \/ \E pr \in SingleParams, cfg \in Configs, mfs \in {"1518", "9216"} :
          InitIf(pr, cfg, mfs, FALSE)
    \/ \E pr \in AggregateParams, cfg \in FewConfigs, cm \in BOOLEAN :
          InitIf(pr, cfg, "1518", cm)

\* want = map_params_to_obj(module), when a validator calls fail_json
IfMapParamsFail ==
    /\ pc = "if_map_params_to_obj"
    /\ ParamsInvalid(params)
    /\ result' = [result EXCEPT !.failed = TRUE,
                                !.msg = "mtu must be between 1518 and 9216"]
    /\ pc' = "failed"
    /\ UNCHANGED <<want, have, check_mode, device, i, commands, submitted, params, warnings>>
    /\ UNCHANGED notInterfaceVars

\* want = map_params_to_obj(module); have = map_config_to_obj(module)
IfMapParamsToObj ==
    /\ pc = "if_map_params_to_obj"
    /\ ~ParamsInvalid(params)
    /\ want' = map_params_to_obj(params)
    /\ have' = if_map_config_to_obj(device.config)
    /\ pc' = "if_map_obj_to_commands"
    /\ i' = 1
    /\ UNCHANGED <<check_mode, device, commands, result, submitted, params, warnings>>
    /\ UNCHANGED notInterfaceVars

\* The iteration for an interface that is not in have, if it ended the loop.
IfMapObjWarnStops ==
    /\ pc = "if_map_obj_to_commands"
    /\ i <= Len(want)
    /\ search_obj_by_name(want[i].name, have) = PyNone
    /\ warnings' = Append(warnings,
                          "interface " \o Format(want[i].name) \o " does not exist on target")
    /\ i' = Len(want) + 1
    /\ UNCHANGED <<want, have, check_mode, device, pc, commands, result, submitted, params>>
    /\ UNCHANGED notInterfaceVars

\* map_obj_to_commands: one iteration for an interface that is not in have
IfMapObjWarn ==
    /\ pc = "if_map_obj_to_commands"
    /\ i <= Len(want)
    /\ search_obj_by_name(want[i].name, have) = PyNone
    /\ warnings' = Append(warnings,
                          "interface " \o Format(want[i].name) \o " does not exist on target")
    /\ i' = i + 1
    /\ UNCHANGED <<want, have, check_mode, device, pc, commands, result, submitted, params>>
    /\ UNCHANGED notInterfaceVars

\* map_obj_to_commands: one iteration for an interface that is in have
IfMapObjStep ==
    /\ pc = "if_map_obj_to_commands"
    /\ i <= Len(want)
    /\ search_obj_by_name(want[i].name, have) # PyNone
    /\ commands' = commands
                   \o InterfaceCmds(want[i], search_obj_by_name(want[i].name, have), device)
    /\ i' = i + 1
    /\ UNCHANGED <<want, have, check_mode, device, pc, result, submitted, params, warnings>>
    /\ UNCHANGED notInterfaceVars

\* The end of main(): the result, load_config unless check mode, exit_json
IfLoadConfig ==
    /\ pc = "if_map_obj_to_commands"
    /\ i > Len(want)
    /\ submitted' = IF commands # <<>> /\ ~check_mode
                    THEN Append(submitted, commands) ELSE submitted
    /\ result' = [result EXCEPT !.commands = commands, !.changed = (commands # <<>>)]
    /\ pc' = "done"
    /\ UNCHANGED <<want, have, check_mode, device, i, commands, params, warnings>>
    /\ UNCHANGED notInterfaceVars

NextInterface ==
    \/ IfMapParamsFail
    \/ IfMapParamsToObj
    \/ IfMapObjWarn
    \/ IfMapObjStep
    \/ IfLoadConfig

SpecInterface == InitInterface /\ [][NextInterface]_vars

-----------------------------------------------------------------------------
(* The interface attributes *)

\* The iteration of map_obj_to_commands for want[i] has just run and the
\* interface was in have.
InterfaceStepped == pc = "if_map_obj_to_commands" /\ i' = i + 1 /\ warnings' = warnings

\* The observed mtu of an entry: the mtu line of the snapshot, or the running
\* MTU read back when the snapshot has none.
ObservedMtu(o, dev) == IF o.mtu.t = "none" THEN PyStr(dev.max_frame_size) ELSE o.mtu

SuppliedMtuCmds(w, o, dev) ==
    IF w.mtu.t # "none" /\ ~PyEq(w.mtu, ObservedMtu(o, dev))
    THEN <<"mtu " \o w.mtu.v>> ELSE <<>>

SuppliedSpeedCmds(w, o) ==
    IF w.speed.t # "none" /\ ~PyEq(w.speed, o.speed) THEN <<"speed " \o w.speed.v>> ELSE <<>>

SuppliedEnabledCmds(w, o) ==
    IF "disable" \in DOMAIN w /\ w.disable # o.disable
    THEN IF w.disable THEN <<"shutdown">> ELSE <<"no shutdown">>
    ELSE <<>>

SuppliedCmds(w, o, dev) ==
    WithHeader(w.name, SuppliedMtuCmds(w, o, dev) \o DescriptionCmds(w, o)
                       \o SuppliedSpeedCmds(w, o) \o SuppliedEnabledCmds(w, o))

\* C5: for a desired entry whose interface is observed, mtu, speed and enabled
\* each contribute a command only if the field was supplied and differs from
\* the observed value (for mtu the observed mtu line, or the running MTU when
\* there is no mtu line); an unsupplied field never contributes a command.
C5_OnlySuppliedDifferingFields ==
    [][InterfaceStepped =>
          \E o \in {search_obj_by_name(want[i].name, have)} :
              commands' = commands \o SuppliedCmds(want[i], o, device)]_vars

-----------------------------------------------------------------------------
(* edgeswitch_voice *)

PyList(l) == [t |-> "list", v |-> l]

\* name.startswith(prefix)
StartsWith(name, prefix) ==
    Len(name) >= Len(prefix) /\ SubSeq(name, 1, Len(prefix)) = prefix

\* 0\/(\d+)-0\/(\d+) matched at position p: the positions after each group, or <<>>.
VoiceRangeEnds(s, p, e1, e2) ==
    IF /\ e1 > p + 2
       /\ e1 + 2 <= Len(s)
       /\ SubSeq(s, e1, e1 + 2) = <<"-", "0", "/">>
       /\ e2 > e1 + 3
    THEN <<e1, e2>> ELSE <<>>

VoiceRangeFrom(s, p, e1) == VoiceRangeEnds(s, p, e1, DigitsEnd(s, e1 + 3))

VoiceRangeAt(s, p) ==
    IF p + 1 <= Len(s) /\ SubSeq(s, p, p + 1) = <<"0", "/">>
    THEN VoiceRangeFrom(s, p, DigitsEnd(s, p + 2)) ELSE <<>>

\* The two groups of the match at p that ends its groups at m, as numbers.
VoiceRangeGroups(s, p, m) ==
    <<ParseInt(SubSeq(s, p + 2, m[1] - 1)), ParseInt(SubSeq(s, m[1] + 3, m[2] - 1))>>

VoiceRangeLeftmost(s, ps) ==
    IF ps = {} THEN <<>>
    ELSE VoiceRangeGroups(s, CHOOSE q \in ps : \A r \in ps : q <= r,
                          VoiceRangeAt(s, CHOOSE q \in ps : \A r \in ps : q <= r))

\* re.search(r'0\/(\d+)-0\/(\d+)', i): int() of the two groups of the leftmost
\* match, or <<>> when there is none.
VoiceRangeSearch(s) == VoiceRangeLeftmost(s, {p \in 1..Len(s) : VoiceRangeAt(s, p) # <<>>})

\* The names of the observed ports, in the order of the dict.
PortNames(pts) == [n \in DOMAIN pts |-> pts[n].name]

\* ports[key], for a key of the dict
PortOf(pts, key) == pts[CHOOSE n \in DOMAIN pts : pts[n].name = key]

\* The keys of range(int(match.group(1)), int(match.group(2)) + 1)
VoiceRangeKeys(g) == [n \in 1..(g[2] - g[1] + 1) |-> <<"0", "/">> \o IntChars(g[1] + n - 1)]

VoiceMatchKeys(tok, match) == IF match # <<>> THEN VoiceRangeKeys(match) ELSE <<tok>>

\* The keys one element of interfaces assigns in interfaces_cmd, in order.
VoiceKeys(tok, pts) ==
    IF tok = <<"a", "l", "l">>
    THEN SelectSeq(PortNames(pts), LAMBDA key : StartsWith(key, <<"0", "/">>))
    ELSE VoiceMatchKeys(tok, VoiceRangeSearch(tok))

\* The keys the loop "for i in interfaces" assigns, in order.
RECURSIVE VoiceAllKeys(_, _)
VoiceAllKeys(ifs, pts) ==
    IF ifs = <<>> THEN <<>>
    ELSE VoiceKeys(Head(ifs), pts) \o VoiceAllKeys(Tail(ifs), pts)

\* The keys of a dict after the assignments ks: each at its first assignment.
RECURSIVE DictKeys(_)
DictKeys(ks) ==
    IF ks = <<>> THEN <<>>
    ELSE <<Head(ks)>> \o DictKeys(SelectSeq(Tail(ks), LAMBDA key : key # Head(ks)))

\* map_to_commands_interface raises TypeError: 'voice vlan dscp ' + None, or
\* "for ltype in None" (port['voice_dscp'] is a str, so it never equals None).
InterfaceRaises(w) ==
    w.state = "present" /\ (w.dscp.t = "none" \/ w.lldp.t = "none")

\* The elements of lldp that are not in port['lldp'], in order.
LldpMissing(lldp, port) ==
    SelectSeq(lldp, LAMBDA ltype : \A m \in DOMAIN port.lldp : port.lldp[m] # ltype)

LldpPrefixed(missing) == [n \in DOMAIN missing |-> "lldp " \o missing[n]]

LldpCmds(lldp, port) == LldpPrefixed(LldpMissing(lldp, port))

\* map_to_commands_interface if state absent removed the voice VLAN whatever
\* the port has.
map_to_commands_interface_always_removes(vlan_id, w, port) ==
    IF w.state = "present"
    THEN (IF port.voice_vlan # vlan_id THEN <<"voice vlan {}" \o vlan_id>> ELSE <<>>)
         \o (IF port.voice_dscp # w.dscp.v THEN <<"voice vlan dscp " \o w.dscp.v>> ELSE <<>>)
         \o LldpCmds(w.lldp.v, port)
    ELSE <<"no voice vlan">>
         \o (IF port.voice_dscp # "no" THEN <<"no voice vlan dscp">> ELSE <<>>)

\* map_to_commands_interface(vlan_id, dscp, lldp, state, port), when it returns
map_to_commands_interface(vlan_id, w, port) ==
    IF w.state = "present"
    THEN (IF port.voice_vlan # vlan_id THEN <<"voice vlan {}" \o vlan_id>> ELSE <<>>)
         \o (IF port.voice_dscp # w.dscp.v THEN <<"voice vlan dscp " \o w.dscp.v>> ELSE <<>>)
         \o LldpCmds(w.lldp.v, port)
    ELSE (IF port.voice_vlan # "no" THEN <<"no voice vlan">> ELSE <<>>)
         \o (IF port.voice_dscp # "no" THEN <<"no voice vlan dscp">> ELSE <<>>)

\* The exception the loop "for i in interfaces" ends with, "" if it ends normally.
RECURSIVE VoiceRaised(_, _, _)
VoiceRaised(ks, pts, w) ==
    IF ks = <<>> THEN ""
    ELSE IF \A n \in DOMAIN pts : pts[n].name # Head(ks) THEN "KeyError"
    ELSE IF InterfaceRaises(w) THEN "TypeError"
    ELSE VoiceRaised(Tail(ks), pts, w)

VoiceBlock(key, t) == IF Len(t) > 0 THEN <<"interface " \o Text(key)>> \o t ELSE <<>>

\* The loop "for i, t in interfaces_cmd.items()" of one desired entry.
RECURSIVE VoiceBlocks(_, _, _)
VoiceBlocks(ks, pts, w) ==
    IF ks = <<>> THEN <<>>
    ELSE VoiceBlock(Head(ks),
                    map_to_commands_interface(Format(w.vlan_id), w, PortOf(pts, Head(ks))))
         \o VoiceBlocks(Tail(ks), pts, w)

\* The interface blocks map_config_to_obj does not skip.
NonLag(cfg) == SelectSeq(cfg, LAMBDA b : ~StartsWith(b.name, <<"l", "a", "g">>))

\* The port of an interface block.
VoicePort(b) ==
    [name |-> b.name,
     voice_vlan |-> IF b.voice_vlan = "" THEN "no" ELSE b.voice_vlan,
     voice_dscp |-> IF b.voice_dscp = "" THEN "no" ELSE b.voice_dscp,
     lldp |-> b.lldp]

VoicePorts(blocks) == [n \in DOMAIN blocks |-> VoicePort(blocks[n])]

\* map_config_to_obj of edgeswitch_voice: one port per interface block, none
\* for a lag.
voice_map_config_to_obj(cfg) == VoicePorts(NonLag(cfg))

(* The inputs of edgeswitch_voice *)

VoiceEntry(vid, ds, ifs, ll, st) ==
    [vlan_id |-> vid, dscp |-> ds, interfaces |-> ifs, lldp |-> ll, state |-> st]

VoiceBlockOf(nm, vv, ds, ll) == [name |-> nm, voice_vlan |-> vv, voice_dscp |-> ds, lldp |-> ll]

VoiceConfigs ==
    { <<VoiceBlockOf(I_0_1, "", "", <<>>), VoiceBlockOf(I_0_2, "", "", <<>>),
        VoiceBlockOf(I_0_10, "", "", <<>>), VoiceBlockOf(<<"l", "a", "g", " ", "1">>, "", "", <<>>)>>,
      <<VoiceBlockOf(I_0_2, "100", "46", <<"transmit", "med">>),
        VoiceBlockOf(I_0_1, "100", "", <<"transmit">>),
        VoiceBlockOf(<<"1", "/", "1">>, "100", "", <<>>),
        VoiceBlockOf(<<"1", "/", "2">>, "", "", <<>>)>>,
      <<VoiceBlockOf(I_0_1, "200", "46", <<>>),
        VoiceBlockOf(I_0_10, "100", "46", <<"transmit", "med">>),
        VoiceBlockOf(I_0_2, "", "", <<>>)>> }

VoiceLists ==
    { <<I_0_1>>, <<I_0_2, I_0_1>>, <<T_all>>, <<R_0_1_0_2>>, <<I_0_9>>,
      <<I_0_10, I_0_2>>, <<I_0_2, R_0_1_0_2>>, <<R_1_1_1_2>> }

\* Family 1: one desired entry, every combination of its fields.
VoiceWideEntries ==
    {VoiceEntry(vid, ds, ifs, ll, st) :
        vid \in {PyNone, PyInt(100)}, ds \in {PyNone, PyStr("46")}, ifs \in VoiceLists,
        ll \in {PyNone, PyList(<<>>), PyList(<<"transmit", "med">>)},
        st \in States}

\* Family 2: lists of entries that name every field.
VoiceFullEntries ==
    {VoiceEntry(PyInt(100), PyStr("46"), ifs, PyList(<<"transmit", "med">>), st) :
        ifs \in {<<I_0_2, I_0_1>>, <<I_0_10, I_0_2>>, <<T_all>>}, st \in States}

(* main() of edgeswitch_voice *)

notVoiceVars == <<purge, ports, interfaces, interfaces_cmds, params, warnings>>

InitVoiceWith(wt, cfg, cm) ==
    /\ want = wt
    /\ device = [config |-> cfg]
    /\ check_mode = cm
    /\ have = <<>>
    /\ pc = "voice_map_config_to_obj"
    /\ i = 1
    /\ commands = <<>>
    /\ result = NoResult
    /\ submitted = <<>>
    /\ params = <<>>
    /\ warnings = <<>>
    /\ purge = FALSE
    /\ ports = <<>>
    /\ interfaces = <<>>
    /\ interfaces_cmds = <<>>

InitVoice ==
    \/ \E w \in VoiceWideEntries, cfg \in VoiceConfigs, cm \in BOOLEAN :
          InitVoiceWith(<<w>>, cfg, cm)
    \/ \E wt \in SeqsUpTo(VoiceFullEntries), cfg \in VoiceConfigs :
          InitVoiceWith(wt, cfg, FALSE)

\* have = map_config_to_obj(module)
VoiceMapConfigToObj ==
    /\ pc = "voice_map_config_to_obj"
    /\ have' = voice_map_config_to_obj(device.config)
    /\ pc' = "voice_map_to_commands"
    /\ UNCHANGED <<want, check_mode, device, i, commands, result, submitted>>
    /\ UNCHANGED notVoiceVars

\* map_to_commands: fail_json for a present entry without vlan_id
VoiceMissingVlanId ==
    /\ pc = "voice_map_to_commands"
    /\ i <= Len(want)
    /\ want[i].state = "present"
    /\ Format(want[i].vlan_id) = "None"
    /\ result' = [result EXCEPT
                     !.failed = TRUE,
                     !.msg = "state is 'present' but the following is missing: vlan_id"]
    /\ pc' = "failed"
    /\ UNCHANGED <<want, have, check_mode, device, i, commands, submitted>>
    /\ UNCHANGED notVoiceVars

\* map_to_commands: an iteration of "for w in want" that ends with an exception
VoiceRaise ==
    /\ pc = "voice_map_to_commands"
    /\ i <= Len(want)
    /\ ~(want[i].state = "present" /\ Format(want[i].vlan_id) = "None")
    /\ \E e \in {VoiceRaised(VoiceAllKeys(want[i].interfaces, have), have, want[i])} :
          /\ e # ""
          /\ result' = [result EXCEPT !.failed = TRUE, !.msg = e]
    /\ pc' = "failed"
    /\ UNCHANGED <<want, have, check_mode, device, i, commands, submitted>>
    /\ UNCHANGED notVoiceVars

\* map_to_commands: an iteration of "for w in want" that ends normally
VoiceStep ==
    /\ pc = "voice_map_to_commands"
    /\ i <= Len(want)
    /\ ~(want[i].state = "present" /\ Format(want[i].vlan_id) = "None")
    /\ \E ks \in {VoiceAllKeys(want[i].interfaces, have)} :
          /\ VoiceRaised(ks, have, want[i]) = ""
          /\ commands' = commands \o VoiceBlocks(DictKeys(ks), have, want[i])
    /\ i' = i + 1
    /\ UNCHANGED <<want, have, check_mode, device, pc, result, submitted>>
    /\ UNCHANGED notVoiceVars

\* map_to_commands returns; result['commands'] = commands
VoiceReturn ==
    /\ pc = "voice_map_to_commands"
    /\ i > Len(want)
    /\ result' = [result EXCEPT !.commands = commands]
    /\ pc' = "voice_load_config"
    /\ UNCHANGED <<want, have, check_mode, device, i, commands, submitted>>
    /\ UNCHANGED notVoiceVars

\* The end of main(): load_config unless check mode, exit_json
VoiceLoadConfig ==
    /\ pc = "voice_load_config"
    /\ submitted' = IF commands # <<>> /\ ~check_mode
                    THEN Append(submitted, commands) ELSE submitted
    /\ result' = [result EXCEPT !.changed = (commands # <<>>)]
    /\ pc' = "done"
    /\ UNCHANGED <<want, have, check_mode, device, i, commands>>
    /\ UNCHANGED notVoiceVars

NextVoice ==
    \/ VoiceMapConfigToObj
    \/ VoiceMissingVlanId
    \/ VoiceRaise
    \/ VoiceStep
    \/ VoiceReturn
    \/ VoiceLoadConfig

SpecVoice == InitVoice /\ [][NextVoice]_vars

-----------------------------------------------------------------------------
(* The order of the 'interface X' blocks, in edgeswitch_vlan and edgeswitch_voice *)

NextBlocks == Next \/ NextVoice

SpecBlocks == (Init \/ InitVoice) /\ [][NextBlocks]_vars

\* map_to_commands of edgeswitch_voice has just returned.
VoiceReturned == pc = "voice_load_config"

\* The identifiers of the observed voice ports.
ObservedNames == {have[n].name : n \in DOMAIN have}

\* Every 'interface a' header of the voice commands precedes every
\* 'interface b' header when a is before b in numeric (group, index) order.
VoiceInNumericOrder ==
    VoiceReturned =>
        \A a \in ObservedNames, b \in ObservedNames :
            NumericBefore(a, b) =>
                \A m \in DOMAIN commands, n \in DOMAIN commands :
                    (commands[m] = "interface " \o Text(a)
                     /\ commands[n] = "interface " \o Text(b)) => m < n

\* The ranges 0/a-0/b a token can be read as.
RangesOf(tok) ==
    {q \in IfNumbers \X IfNumbers : tok = IfName(0, q[1]) \o <<"-">> \o IfName(0, q[2])}

NamedRange(q) == [n \in 1..(q[2] - q[1] + 1) |-> IfName(0, q[1] + n - 1)]

\* The interfaces a token of a voice entry names, in the order it names them:
\* the observed interfaces of group 0 in the order of the observed configuration
\* for 'all', 0/a .. 0/b in ascending index for a range 0/a-0/b, itself otherwise.
NamedBy(tok, observed) ==
    IF tok = T_all THEN SelectSeq(observed, LAMBDA k : GroupOf(k) = 0)
    ELSE IF RangesOf(tok) # {} THEN NamedRange(CHOOSE q \in RangesOf(tok) : TRUE)
    ELSE <<tok>>

RECURSIVE NamedOrder(_, _)
NamedOrder(ifs, observed) ==
    IF ifs = <<>> THEN <<>>
    ELSE NamedBy(Head(ifs), observed) \o NamedOrder(Tail(ifs), observed)

\* Where an interface is named first.
FirstNamedAt(order, k) ==
    CHOOSE n \in DOMAIN order : order[n] = k /\ \A m \in 1..(n - 1) : order[m] # k

\* The positions of the 'interface k' headers in a command sequence.
BlocksOf(added, k) == {n \in DOMAIN added : added[n] = "interface " \o Text(k)}

BlockAt(added, k) == CHOOSE n \in BlocksOf(added, k) : TRUE

\* The blocks of one voice entry are in the order in which the entry names the
\* interfaces, one block at most for each.
EntryInNamedOrder(added, order) ==
    \A a \in DOMAIN order, b \in DOMAIN order :
        /\ Cardinality(BlocksOf(added, order[a])) <= 1
        /\ (/\ BlocksOf(added, order[a]) # {}
            /\ BlocksOf(added, order[b]) # {}
            /\ FirstNamedAt(order, order[a]) < FirstNamedAt(order, order[b]))
              => BlockAt(added, order[a]) < BlockAt(added, order[b])

\* The iteration of map_to_commands for want[i] has just ended normally.
VoiceStepped == pc = "voice_map_to_commands" /\ i' = i + 1

\* The voice commands of a desired entry follow those of the entries before
\* it, in the order in which the entry names the interfaces.
VoiceInNamedOrder ==
    [][VoiceStepped =>
          /\ SubSeq(commands', 1, Len(commands)) = commands
          /\ EntryInNamedOrder(SubSeq(commands', Len(commands) + 1, Len(commands')),
                               NamedOrder(want[i].interfaces, PortNames(have)))]_vars

-----------------------------------------------------------------------------
(* The three modules together *)

NextAll == Next \/ NextInterface \/ NextVoice

SpecAll == (Init \/ InitInterface \/ InitVoice) /\ [][NextAll]_vars

\* The module a behaviour is a run of.
VlanRun == "vlans" \in DOMAIN device
InterfaceRun == "max_frame_size" \in DOMAIN device

\* What the loop "for w in want" of map_vlans_to_commands computes.
RECURSIVE WantCmdsFrom(_, _, _)
WantCmdsFrom(wt, hv, k) ==
    IF k > Len(wt) THEN <<>> ELSE VlanWantCmds(wt[k], hv) \o WantCmdsFrom(wt, hv, k + 1)

\* The command sequence a run of edgeswitch_vlan computes: the VLAN-database
\* batch, then the last computed batch (the membership commands).
ComputedByVlan == VlanFinish(WantCmdsFrom(want, have, 1), want, have, purge) \o commands

\* C11: in check mode no command is ever submitted, in any of the three
\* modules, while the result of a completed run still carries the computed command
\* sequence, and changed is true exactly when that sequence is not empty.
C11_CheckModeSubmitsNothing ==
    check_mode =>
        /\ submitted = <<>>
        /\ pc = "done" =>
              /\ result.changed <=> (result.commands # <<>>)
              /\ result.commands = IF VlanRun THEN ComputedByVlan ELSE commands

\* Reached: a check-mode run of edgeswitch_vlan that ends with both a
\* VLAN-database batch and membership commands in its result.
C11_Witness ==
    /\ check_mode
    /\ VlanRun
    /\ pc = "done"
    /\ commands # <<>>
    /\ Len(result.commands) > Len(commands)
    /\ result.changed

-----------------------------------------------------------------------------
(* The interfaces that are not on the target *)

\* The desired entry is for an interface of the observed set.
Observed(w) == \E n \in DOMAIN have : have[n].name = w.name

\* The commands of the desired entries wt, each taken alone, in order.
RECURSIVE EachAlone(_)
EachAlone(wt) ==
    IF wt = <<>> THEN <<>>
    ELSE InterfaceCmds(Head(wt), search_obj_by_name(Head(wt).name, have), device)
         \o EachAlone(Tail(wt))

\* The iteration of map_obj_to_commands for a desired entry that is not observed
\* adds its warning and nothing else, and the loop goes on.
MissingOnlyWarns ==
    [][(pc = "if_map_obj_to_commands" /\ i <= Len(want) /\ ~Observed(want[i])) =>
          /\ warnings' = Append(warnings, "interface " \o want[i].name.v
                                          \o " does not exist on target")
          /\ commands' = commands
          /\ i' = i + 1
          /\ pc' = pc]_vars

\* A completed run returns the commands of the list without its missing entries,
\* and one warning for each missing entry.
MissingAsIfNotListed ==
    (InterfaceRun /\ pc = "done") =>
        /\ commands = EachAlone(SelectSeq(want, Observed))
        /\ Len(warnings) = Len(want) - Len(SelectSeq(want, Observed))

\* C12: a desired entry whose name is not in the observed set adds exactly one
\* warning 'interface <name> does not exist on target' and no command, and the
\* other desired entries yield the commands they would yield without it.
C12_MissingInterfaceOnlyWarns == MissingOnlyWarns /\ []MissingAsIfNotListed

\* Reached: a run whose first entry named the missing interface 0/9 ends with
\* one warning and the commands of its second entry.
C12_Witness ==
    /\ InterfaceRun
    /\ pc = "done"
    /\ Len(want) = 2
    /\ want[1].name = PyStr("0/9")
    /\ warnings = <<"interface 0/9 does not exist on target">>
    /\ commands # <<>>

-----------------------------------------------------------------------------
(* The voice commands *)

\* The sub-commands of one interface for a present entry, with the voice-VLAN
\* command 'voice vlan <vlan_id>' when the observed voice_vlan differs.
PresentCmds(w, port) ==
    (IF port.voice_vlan # Format(w.vlan_id)
     THEN <<"voice vlan " \o Format(w.vlan_id)>> ELSE <<>>)
    \o (IF port.voice_dscp # w.dscp.v THEN <<"voice vlan dscp " \o w.dscp.v>> ELSE <<>>)
    \o LldpCmds(w.lldp.v, port)

RECURSIVE PresentBlocks(_, _, _)
PresentBlocks(ks, pts, w) ==
    IF ks = <<>> THEN <<>>
    ELSE VoiceBlock(Head(ks), PresentCmds(w, PortOf(pts, Head(ks))))
         \o PresentBlocks(Tail(ks), pts, w)

\* C13: for a present voice entry, each targeted interface whose observed
\* voice_vlan differs from the desired vlan_id gets exactly the voice-VLAN command
\* 'voice vlan <vlan_id>', and an interface whose voice_vlan equals it gets none.
C13_VoiceVlanCommand ==
    [][(VoiceStepped /\ want[i].state = "present") =>
          commands' = commands
                      \o PresentBlocks(DictKeys(VoiceAllKeys(want[i].interfaces, have)),
                                       have, want[i])]_vars

\* The sub-commands of one interface for an absent entry: 'no voice vlan' iff
\* the observed voice_vlan is not 'no', 'no voice vlan dscp' iff the observed
\* voice_dscp is not 'no', and nothing else.
AbsentCmds(port) ==
    (IF port.voice_vlan # "no" THEN <<"no voice vlan">> ELSE <<>>)
    \o (IF port.voice_dscp # "no" THEN <<"no voice vlan dscp">> ELSE <<>>)

\* The blocks of the interfaces ks: no header for an interface that is clear.
RECURSIVE AbsentBlocks(_, _)
AbsentBlocks(ks, pts) ==
    IF ks = <<>> THEN <<>>
    ELSE (IF AbsentCmds(PortOf(pts, Head(ks))) = <<>> THEN <<>>
          ELSE <<"interface " \o Text(Head(ks))>> \o AbsentCmds(PortOf(pts, Head(ks))))
         \o AbsentBlocks(Tail(ks), pts)

\* C14: for an absent voice entry, each targeted interface gets 'no voice
\* vlan' iff its observed voice_vlan is not 'no', 'no voice vlan dscp' iff its
\* observed voice_dscp is not 'no', and no other sub-command; an interface clear
\* of both contributes nothing, not even its header.
C14_VoiceAbsentCommands ==
    [][(VoiceStepped /\ want[i].state = "absent") =>
          commands' = commands
                      \o AbsentBlocks(DictKeys(NamedOrder(want[i].interfaces, PortNames(have))),
                                      have)]_vars

\* Reached: an absent entry for 'all' cleared 0/1 and 0/10 and left 0/2, which
\* was clear already, without a block.
C14_Witness ==
    /\ pc = "voice_map_to_commands"
    /\ i = 2
    /\ want[1].state = "absent"
    /\ want[1].interfaces = <<T_all>>
    /\ commands = <<"interface 0/1", "no voice vlan", "no voice vlan dscp",
                    "interface 0/10", "no voice vlan", "no voice vlan dscp">>

-----------------------------------------------------------------------------
(* Range expansion *)

\* The interfaces the three lists of a VLAN entry name, ranges expanded.
NamedByLists(w) ==
    ExpandAll(w.tagged_interfaces) \cup ExpandAll(w.untagged_interfaces)
    \cup ExpandAll(w.excluded_interfaces)

\* The dict of target modes of VLAN entry w has every interface its lists name,
\* and besides them only observed ports (those of an auto default).
ListsExpanded(w, d) ==
    /\ NamedByLists(w) \subseteq DOMAIN d
    /\ (DOMAIN d) \ NamedByLists(w) \subseteq DOMAIN ports
    /\ AutoDefault(w) = "none" => DOMAIN d = NamedByLists(w)

VlanRangesExpanded ==
    /\ (pc = "map_interfaces_to_commands" /\ i > 1 /\ want[i - 1].state = "present")
          => ListsExpanded(want[i - 1], interfaces)
    /\ (VlanRun /\ pc = "failed" /\ result.msg = "KeyError")
          => ListsExpanded(want[i], interfaces)

\* A voice entry without 'all' whose lists name observed interfaces only.
NamesObserved(w) ==
    /\ \A n \in DOMAIN w.interfaces : w.interfaces[n] # T_all
    /\ ExpandAll(w.interfaces) \subseteq ObservedNames

\* An iteration of map_to_commands for an absent entry that names observed
\* interfaces only ends normally, with a block for exactly the named interfaces
\* that have a voice VLAN.
VoiceRangesExpanded ==
    [][(pc = "voice_map_to_commands" /\ i <= Len(want) /\ want[i].state = "absent"
        /\ NamesObserved(want[i])) =>
          /\ VoiceStepped
          /\ \A k \in ObservedNames :
                (\E n \in (Len(commands) + 1)..Len(commands') :
                     commands'[n] = "interface " \o Text(k))
                <=> (k \in ExpandAll(want[i].interfaces)
                     /\ AbsentCmds(PortOf(have, k)) # <<>>)]_vars

\* C15 as claimed: a token g/a-g/b of a VLAN interface list or of a voice
\* interface list contributes exactly the interfaces g/a .. g/b, and a single
\* token g/i exactly g/i.
C15_RangeContributesItsInterfaces == []VlanRangesExpanded /\ VoiceRangesExpanded

-----------------------------------------------------------------------------
(* The order of the interface sub-commands *)

\* The description sub-command: "description '<d>'" when a description is
\* desired and differs from the observed one, 'no description' when none is
\* desired and one is observed, nothing otherwise.
DescriptionAsClaimed(w, o) ==
    IF w.description.t = "str" /\ w.description.v # ""
    THEN IF o.description.t = "str" /\ o.description.v = w.description.v
         THEN <<>> ELSE <<"description '" \o w.description.v \o "'">>
    ELSE IF o.description.t = "str" /\ o.description.v # ""
         THEN <<"no description">> ELSE <<>>

\* At most one mtu, one speed and one shutdown/no shutdown sub-command.
MtuChoices(w) == {<<>>, <<"mtu " \o Format(w.mtu)>>}
SpeedChoices(w) == {<<>>} \cup (IF w.speed.t = "str" THEN {<<"speed " \o w.speed.v>>} ELSE {})
ShutdownChoices == {<<>>, <<"shutdown">>, <<"no shutdown">>}

\* The header, only when a sub-command follows.
HeaderIfAny(name, subs) == IF subs = <<>> THEN <<>> ELSE <<"interface " \o name.v>> \o subs

-----------------------------------------------------------------------------
(* Re-runs of the VLAN existence phase *)

\* The VLAN ids and names of the commands.
CmdIds == {1, 2, 3, 100}
CmdNames == {"voice", "data"}

\* The observed VLAN list without VLAN n.
Without(tb, n) == SelectSeq(tb, LAMBDA v : v.id # n)

\* The observed VLAN list after one command: 'vlan N' adds VLAN N, 'vlan name N
\* "x"' sets its name to x, 'no vlan N' removes VLAN N.
ApplyOne(cmd, tb) ==
    IF \E n \in CmdIds : cmd = "vlan " \o ToString(n)
    THEN IF \E v \in DOMAIN tb : cmd = "vlan " \o ToString(tb[v].id)
         THEN tb
         ELSE Append(tb, [id |-> CHOOSE n \in CmdIds : cmd = "vlan " \o ToString(n),
                          name |-> "VLAN"])
    ELSE IF \E n \in CmdIds : cmd = "no vlan " \o ToString(n)
    THEN Without(tb, CHOOSE n \in CmdIds : cmd = "no vlan " \o ToString(n))
    ELSE [v \in DOMAIN tb |->
             IF \E nm \in CmdNames :
                    cmd = "vlan name " \o ToString(tb[v].id) \o " \"" \o nm \o "\""
             THEN [id |-> tb[v].id,
                   name |-> CHOOSE nm \in CmdNames :
                                cmd = "vlan name " \o ToString(tb[v].id) \o " \"" \o nm \o "\""]
             ELSE tb[v]]

RECURSIVE ApplyAll(_, _)
ApplyAll(cmds, tb) ==
    IF cmds = <<>> THEN tb ELSE ApplyAll(Tail(cmds), ApplyOne(Head(cmds), tb))

\* map_vlans_to_commands for the desired list wt on the observed list hv.
SecondRun(wt, hv, pg) == VlanFinish(WantCmdsFrom(wt, hv, 1), wt, hv, pg)

\* The vlan_ids of the desired list are pairwise distinct.
DistinctIds(wt) ==
    \A a \in DOMAIN wt, b \in DOMAIN wt : a # b => wt[a].vlan_id # wt[b].vlan_id

\* C17 as claimed: when the commands map_vlans_to_commands returned are
\* applied to the observed VLAN list and map_vlans_to_commands is run again with
\* the same desired list (of pairwise distinct vlan_ids), it returns no command.
C17_RerunReturnsNothing ==
    (VlansReturned /\ DistinctIds(want)) =>
        SecondRun(want, parse_vlan_brief(ApplyAll(commands, device.vlans)), purge) = <<>>

\* The same without purge.
RerunWithoutPurge == purge \/ C17_RerunReturnsNothing

====
